---- MODULE Spec2Model ----
(***************************************************************************)
(* State-machine model of gocharm (src/cmd/gocharm/gocharm.go): one run of *)
(* main over the charms of a repository, with the file system of each      *)
(* charm, the process environment, the two output streams and the exit     *)
(* status as state.  The lines of log.Printf (the -v flag, the "error      *)
(* info" line) are not part of the state.                                  *)
(***************************************************************************)
EXTENDS Integers, Sequences, FiniteSets, TLC

\* ------------------------------------------------------------------ bounds
NumCharms == 2
MaxOldRev == 1
MaxEnvLen == 3

Charms == 1..NumCharms
\* Revisions the first charm starts with: the least and the greatest.
Revisions == {0, MaxOldRev}

\* Hook names a charm's RegisterHooks may declare, in sorted order.
HookSeq == <<"config-changed", "stop">>
HookNames == {HookSeq[k] : k \in 1..Len(HookSeq)}

\* On-disk state of one stub file hooks/<name>.
StubStates == {"absent", "generated", "custom"}

\* A hooks directory whose stop stub was edited by hand.
CustomStop == [h \in HookNames |-> IF h = "stop" THEN "custom" ELSE "absent"]

\* Stub layouts a Go charm starts with: no stub, every stub as generated,
\* an edited stop stub.
StubLayouts ==
  { [h \in HookNames |-> "absent"],
    [h \in HookNames |-> "generated"],
    CustomStop }

\* metadata.yaml of a charm: not there, readable by charm.ReadDir, or not.
MetaStates == {"absent", "ok", "bad"}

\* Results of os.Stat(<charm>/src/runhook).
SrcStates == {"absent", "file", "dir", "error"}

VARIABLES
  repo,            \* *repo: the -repo flag value, then the resolved root
  jujuRepository,  \* $JUJU_REPOSITORY
  test,            \* -test flag
  environ,         \* os.Environ(): sequence of "NAME=VALUE" strings
  metadata,        \* [Charms -> MetaStates]: <root>/*/<c>/metadata.yaml
  srcRunhook,      \* [Charms -> SrcStates]
  revision,        \* [Charms -> Nat]: on-disk revision file
  pkg,             \* [Charms -> BOOLEAN]: <charm>/pkg exists
  mainGo,          \* [Charms -> BOOLEAN]: src/_main/runhook/main.go written
  binRunhook,      \* [Charms -> BOOLEAN]: bin/runhook exists
  hooksDir,        \* [Charms -> [HookNames -> StubStates]]
  pc,              \* position of main
  paths,           \* result of filepath.Glob
  dirs,            \* charms read by charm.ReadDir, in order
  idx,             \* index of the current loop
  dirRevision,     \* [Charms -> Nat]: dir.Revision(), the in-memory revision
  hooks,           \* processGoCharm: the hooks map
  doneSomething,   \* processGoCharm: first result
  err,             \* processGoCharm: second result ("" is nil)
  cmdEnv,          \* c.Env of the last go command
  envEntry,        \* the entry argument of the last single setenv call
  exitCode,        \* the package variable exitCode
  exitStatus,      \* status given to os.Exit
  stdout,          \* success lines
  stderr,          \* diagnostics
  rev0,            \* history: on-disk revision at the start of the run
  hooks0,          \* history: hooksDir at the start of the run
  declared,        \* history: the hook set registeredHooks returned
  trace,           \* history: [Charms -> Seq of stage names]
  registered,      \* [Charms -> set of hook sets]: what the charm's sources
                   \* can declare; one set when the sources are fixed
  run,             \* number of the run of gocharm
  doneBefore,      \* history: charms the previous run bumped
  handed           \* history: the hook set of the last writeHooks call

fsVars == <<metadata, srcRunhook, revision, pkg, mainGo, binRunhook, hooksDir>>
inVars == <<jujuRepository, test, environ, envEntry, rev0, hooks0,
            registered, run, doneBefore>>
procVars == <<hooks, doneSomething, err, cmdEnv, declared>>
outVars == <<exitCode, exitStatus, stdout, stderr>>
vars == <<repo, jujuRepository, test, environ, metadata, srcRunhook,
          revision, pkg, mainGo, binRunhook, hooksDir, pc, paths, dirs, idx,
          dirRevision, hooks, doneSomething, err, cmdEnv, envEntry, exitCode,
          exitStatus, stdout, stderr, rev0, hooks0, declared, trace,
          registered, run, doneBefore, handed>>

\* ------------------------------------------------------------- environment

\* strings.Index(s, "="): 0-based index of the first "=", or -1.
RECURSIVE IndexFrom(_, _)
IndexFrom(s, k) ==
  IF k > Len(s) THEN -1
  ELSE IF SubSeq(s, k, k) = "=" THEN k - 1
  ELSE IndexFrom(s, k + 1)

IndexEq(s) == IndexFrom(s, 1)

\* strings.HasPrefix(s, prefix)
HasPrefix(s, prefix) ==
  /\ Len(s) >= Len(prefix)
  /\ SubSeq(s, 1, Len(prefix)) = prefix

\* Index of the first element of env that has the prefix, 0 if none.
RECURSIVE FirstWithPrefix(_, _, _)
FirstWithPrefix(env, prefix, k) ==
  IF k > Len(env) THEN 0
  ELSE IF HasPrefix(env[k], prefix) THEN k
  ELSE FirstWithPrefix(env, prefix, k + 1)

\* setenv(env, entry); entry holds an "=" (the code panics otherwise).
setenv(env, entry) ==
  LET i == IndexEq(entry)
      prefix == SubSeq(entry, 1, i + 1)
      k == FirstWithPrefix(env, prefix, 1)
  IN IF k = 0 THEN Append(env, entry)
     ELSE [env EXCEPT ![k] = entry]

\* os.Getenv(name): the value of the first entry for name, "" if none.
Getenv(env, name) ==
  LET k == FirstWithPrefix(env, name \o "=", 1)
  IN IF k = 0 THEN ""
     ELSE SubSeq(env[k], Len(name) + 2, Len(env[k]))

\* dir.Path of charm c: <repo>/<series>/<name>
Path(c) == "/r/s/c" \o ToString(c)

\* The environment compile gives to "go build".
compileEnv(env, c, crossCompile) ==
  LET e1 == setenv(env, "GOPATH=" \o Path(c) \o ":" \o Getenv(env, "GOPATH"))
  IN IF crossCompile
       THEN setenv(setenv(setenv(e1, "CGOENABLED=false"), "GOARCH=amd64"),
                   "GOOS=linux")
       ELSE e1

\* The inherited environment of the run of main.
InheritedEnv == <<"HOME=/h", "GOPATH=/go", "GOOS=darwin">>

\* ------------------------------------------------------------ diagnostics

Msg(kind, what, c) == [kind |-> kind, what |-> what, charm |-> c]

\* errorf without the assignment to exitCode.
errorfKeepsExitCode(what, c) ==
  /\ exitCode' = exitCode
  /\ stderr' = Append(stderr, Msg("error", what, c))

\* errorf: sets exitCode and writes to stderr.
errorf(what, c) ==
  /\ exitCode' = 1
  /\ stderr' = Append(stderr, Msg("error", what, c))

\* warningf: writes to stderr only.
warningf(what, c) ==
  /\ exitCode' = exitCode
  /\ stderr' = Append(stderr, Msg("warning", what, c))

\* fatalf leaving with the status of a per-charm failure.
fatalfExitCode(what) ==
  /\ errorf(what, 0)
  /\ exitStatus' = 1
  /\ pc' = "exited"

\* fatalf: errorf, then os.Exit(2).
fatalf(what) ==
  /\ errorf(what, 0)
  /\ exitStatus' = 2
  /\ pc' = "exited"

\* ------------------------------------------------------------------- main

DefaultStubs == [h \in HookNames |-> "absent"]

\* A charm that is not under the repository root.
NoCharm(c, s, h) ==
  /\ s[c] = "absent"
  /\ h[c] = DefaultStubs

\* What main has not touched yet.
Fresh ==
  /\ pkg = [c \in Charms |-> FALSE]
  /\ mainGo = [c \in Charms |-> FALSE]
  /\ binRunhook = [c \in Charms |-> FALSE]
  /\ paths = <<>>
  /\ dirs = <<>>
  /\ idx = 1
  /\ dirRevision = [c \in Charms |-> 0]
  /\ hooks = {}
  /\ doneSomething = FALSE
  /\ err = ""
  /\ cmdEnv = <<>>
  /\ envEntry = ""
  /\ exitCode = 0
  /\ exitStatus = 0
  /\ stdout = <<>>
  /\ stderr = <<>>
  /\ rev0 = revision
  /\ hooks0 = hooksDir
  /\ declared = {}
  /\ trace = [c \in Charms |-> <<>>]
  /\ run = 1
  /\ doneBefore = {}
  /\ handed = {}

Layout ==
  /\ repo \in {"", "/r"}
  /\ jujuRepository \in {"", "/r"}
  /\ test \in BOOLEAN
  /\ environ = InheritedEnv
  /\ metadata \in [Charms -> MetaStates]
  /\ srcRunhook \in [Charms -> SrcStates]
  /\ \E base \in Revisions : revision = [c \in Charms |-> base + c - 1]
  /\ hooksDir \in [Charms -> StubLayouts]
  /\ (repo = "" /\ jujuRepository = "")
       => metadata = [c \in Charms |-> "absent"]
  /\ \A c \in Charms :
       /\ metadata[c] # "ok" => NoCharm(c, srcRunhook, hooksDir)
       /\ metadata[c] = "ok" /\ srcRunhook[c] # "dir" => hooksDir[c] = CustomStop
  /\ pc = "start"
  /\ Fresh

\* One run of gocharm over any repository; what the sources of a charm
\* declare is left open.
Init ==
  /\ Layout
  /\ registered = [c \in Charms |-> SUBSET HookNames]

\* Record stage s in the history of charm c.
Stage(c, s) == trace' = [trace EXCEPT ![c] = Append(@, s)]

\* main, lines 82-86: resolve the repository root.
ResolveRepo ==
  /\ pc = "start"
  /\ repo' = IF repo = "" THEN jujuRepository ELSE repo
  /\ IF repo' = ""
       THEN /\ fatalf("no charm repo directory specified")
            /\ UNCHANGED stdout
       ELSE /\ pc' = "glob"
            /\ UNCHANGED outVars
  /\ UNCHANGED <<handed, fsVars, inVars, procVars, paths, dirs, idx, dirRevision, trace>>

\* The charms with a metadata.yaml, in the sorted order Glob returns.
RECURSIVE GlobFrom(_)
GlobFrom(c) ==
  IF c > NumCharms THEN <<>>
  ELSE IF metadata[c] # "absent" THEN <<c>> \o GlobFrom(c + 1)
  ELSE GlobFrom(c + 1)

\* main, lines 87-90: find the charms.
Glob ==
  /\ pc = "glob"
  /\ paths' = GlobFrom(1)
  /\ IF Len(paths') = 0
       THEN /\ fatalf("no charms found")
            /\ UNCHANGED stdout
       ELSE /\ pc' = "read"
            /\ UNCHANGED outVars
  /\ idx' = 1
  /\ UNCHANGED <<handed, fsVars, inVars, procVars, dirs, dirRevision, trace, repo>>

\* main, lines 92-100: charm.ReadDir on each path; a charm that cannot be
\* read is reported with errorf and left out of dirs.
ReadDir ==
  /\ pc = "read"
  /\ LET c == paths[idx] IN
         IF metadata[c] = "ok"
           THEN /\ dirs' = Append(dirs, c)
                /\ dirRevision' = [dirRevision EXCEPT ![c] = revision[c]]
                /\ Stage(c, "read")
                /\ UNCHANGED outVars
           ELSE /\ errorf("cannot read", c)
                /\ Stage(c, "readfail")
                /\ UNCHANGED <<dirs, dirRevision, exitStatus, stdout>>
  /\ IF idx < Len(paths)
       THEN idx' = idx + 1 /\ pc' = "read"
       ELSE idx' = 1 /\ pc' = IF Len(dirs') = 0 THEN "exit" ELSE "classify"
  /\ UNCHANGED <<handed, fsVars, inVars, procVars, paths, repo>>

\* A "break" in the place of the "continue".
ContinueBreaks == idx' = idx /\ pc' = "exit"

\* The "continue" of the loop over dirs (line 101), and the fall out of it.
Continue ==
  IF idx < Len(dirs)
    THEN idx' = idx + 1 /\ pc' = "classify"
    ELSE idx' = idx /\ pc' = "exit"

\* isGoCharm without the info.IsDir() test.
isGoCharmAnyFile(c) ==
  CASE srcRunhook[c] = "absent" -> <<FALSE, "">>
    [] srcRunhook[c] = "error" -> <<FALSE, "stat">>
    [] srcRunhook[c] = "file" -> <<TRUE, "">>
    [] srcRunhook[c] = "dir" -> <<TRUE, "">>

\* isGoCharm, lines 178-190: <<isGo, err>> from the stat of src/runhook.
isGoCharm(c) ==
  CASE srcRunhook[c] = "absent" -> <<FALSE, "">>
    [] srcRunhook[c] = "error" -> <<FALSE, "stat">>
    [] srcRunhook[c] = "file" -> <<FALSE, "">>
    [] srcRunhook[c] = "dir" -> <<TRUE, "">>

\* main, lines 101-115: classify the charm.
Classify ==
  /\ pc = "classify"
  /\ LET c == dirs[idx]
         r == isGoCharm(c)
     IN IF r[2] # ""
          THEN /\ warningf("cannot determine if Go charm", c)
               /\ Stage(c, "classerr")
               /\ Continue
               /\ UNCHANGED <<exitStatus, stdout>>
          ELSE IF ~r[1]
            THEN /\ Stage(c, "notgo")
                 /\ Continue
                 /\ UNCHANGED outVars
            ELSE /\ Stage(c, "go")
                 /\ pc' = "process"
                 /\ idx' = idx
                 /\ UNCHANGED outVars
  /\ UNCHANGED <<handed, fsVars, inVars, procVars, paths, dirs, dirRevision, repo>>

\* ---------------------------------------------------------- processGoCharm

loopVars == <<repo, paths, dirs, idx, dirRevision>>

\* testCharm, lines 233-248, called from line 157: the -test return.  The
\* result is (false, errors.Wrap(e)), nil when the tests pass.
TestCharm ==
  /\ pc = "process"
  /\ test
  /\ LET c == dirs[idx] IN
       \E e \in {"", "walk", "go test"} :
         /\ err' = e
         /\ doneSomething' = FALSE
         /\ cmdEnv' = IF e = "walk" THEN cmdEnv
                      ELSE Append(environ, "GOPATH=" \o Path(c) \o ":"
                                             \o Getenv(environ, "GOPATH")
                                             \o ":%!s(MISSING)")
         /\ Stage(c, IF e = "" THEN "testpass" ELSE "testfail")
  /\ pc' = "return"
  /\ UNCHANGED <<handed, fsVars, inVars, loopVars, outVars, hooks, declared>>

\* compile, lines 207-231, called from line 159 with crossCompile = true.
\* A go build that writes no binary leaves the binary of an earlier build.
Compile ==
  /\ pc = "process"
  /\ ~test
  /\ LET c == dirs[idx] IN
       \E e \in {"", "mkdir", "write", "failed to build"} :
         /\ err' = e
         /\ doneSomething' = FALSE
         /\ IF e \in {"mkdir", "write"}
              THEN UNCHANGED <<mainGo, cmdEnv, pkg, binRunhook>>
              ELSE /\ mainGo' = [mainGo EXCEPT ![c] = TRUE]
                   /\ cmdEnv' = compileEnv(environ, c, TRUE)
                   /\ \E p \in BOOLEAN : pkg' = [pkg EXCEPT ![c] = p]
                   /\ IF e = ""
                        THEN \E b \in BOOLEAN :
                               binRunhook' = [binRunhook EXCEPT ![c] = @ \/ b]
                        ELSE UNCHANGED binRunhook
         /\ Stage(c, IF e = "" THEN "compile" ELSE "compilefail")
         /\ pc' = IF e = "" THEN "stat" ELSE "return"
  /\ UNCHANGED <<handed, metadata, srcRunhook, revision, hooksDir, inVars, loopVars,
                 outVars, hooks, declared>>

\* The result of os.Stat not looked at.
binaryBuiltUnchecked(c) == TRUE

\* processGoCharm, line 162: os.Stat(<charm>/bin/runhook) returns no error.
binaryBuilt(c) == binRunhook[c]

\* processGoCharm, lines 162-164: the binary must exist.
StatBinary ==
  /\ pc = "stat"
  /\ LET c == dirs[idx] IN
       IF binaryBuilt(c)
         THEN /\ pc' = "hooks"
              /\ Stage(c, "binary")
              /\ UNCHANGED err
         ELSE /\ pc' = "return"
              /\ err' = "runhook command not built"
              /\ Stage(c, "nobinary")
  /\ UNCHANGED <<handed, fsVars, inVars, loopVars, outVars, hooks, doneSomething,
                 cmdEnv, declared>>

\* registeredHooks, called from lines 165-168: the hook names the charm's
\* RegisterHooks declares, or an error.
RegisteredHooks ==
  /\ pc = "hooks"
  /\ LET c == dirs[idx] IN
       \/ /\ \E hs \in registered[c] :
               /\ hooks' = hs
               /\ declared' = hs
          /\ pc' = "write"
          /\ Stage(c, "introspect")
          /\ UNCHANGED err
       \/ /\ err' = "hooks not discoverable"
          /\ pc' = "return"
          /\ Stage(c, "introspectfail")
          /\ UNCHANGED <<hooks, declared>>
  /\ UNCHANGED <<handed, fsVars, inVars, loopVars, outVars, doneSomething, cmdEnv>>

\* Line 170 left out.
withStopForgotten(hs) == hs

\* processGoCharm, line 170: hooks["stop"] = true.
withStop(hs) == hs \cup {"stop"}

\* writeHooks: the stubs of the hooks of hs from position k of HookSeq on.
\* A missing stub is written, a stub with the generated content is left, a
\* stub with other content is left and reported.  failAt is the hook whose
\* write fails ("" if none does): the call stops there with an error.
RECURSIVE writeHooksFrom(_, _, _, _, _)
writeHooksFrom(d, hs, failAt, k, warns) ==
  IF k > Len(HookSeq) THEN [dir |-> d, warns |-> warns, err |-> ""]
  ELSE LET h == HookSeq[k] IN
    IF h \notin hs THEN writeHooksFrom(d, hs, failAt, k + 1, warns)
    ELSE IF d[h] = "absent"
      THEN IF h = failAt
             THEN [dir |-> d, warns |-> warns, err |-> "cannot write hooks"]
             ELSE writeHooksFrom([d EXCEPT ![h] = "generated"], hs, failAt,
                                 k + 1, warns)
    ELSE IF d[h] = "generated"
      THEN writeHooksFrom(d, hs, failAt, k + 1, warns)
    ELSE writeHooksFrom(d, hs, failAt, k + 1, Append(warns, h))

writeHooks(d, hs, failAt) == writeHooksFrom(d, hs, failAt, 1, <<>>)

\* The conflict warnings of writeHooks, appended to stderr.
RECURSIVE Conflicts(_, _)
Conflicts(warns, c) ==
  IF warns = <<>> THEN <<>>
  ELSE <<Msg("warning", "hook conflict: " \o Head(warns), c)>>
         \o Conflicts(Tail(warns), c)

\* A conflict warning taken for a failure.
wroteHooksNoWarning(e, warns) == e = "" /\ warns = <<>>

\* processGoCharm, lines 171-174: doneSomething is true when writeHooks
\* returned no error, whatever it warned about.
wroteHooks(e, warns) == e = ""

\* The error of writeHooks dropped.
wrapToNil(e) == ""

\* processGoCharm, line 172: errors.Wrap(err), the error handed on.
wrap(e) == e

\* processGoCharm, lines 169-174: add "stop", write the stubs.
WriteHooks ==
  /\ pc = "write"
  /\ LET c == dirs[idx]
         hs == withStop(hooks)
         missing == {h \in hs : hooksDir[c][h] = "absent"}
     IN \E failAt \in missing \cup {""} :
          LET r == writeHooks(hooksDir[c], hs, failAt) IN
            /\ hooks' = hs
            /\ handed' = hs
            /\ hooksDir' = [hooksDir EXCEPT ![c] = r.dir]
            /\ stderr' = stderr \o Conflicts(r.warns, c)
            /\ err' = wrap(r.err)
            /\ doneSomething' = wroteHooks(wrap(r.err), r.warns)
            /\ Stage(c, IF r.err = "" THEN "stubs" ELSE "stubsfail")
  /\ pc' = "return"
  /\ UNCHANGED <<metadata, srcRunhook, revision, pkg, mainGo, binRunhook,
                 inVars, loopVars, exitCode, exitStatus, stdout, cmdEnv,
                 declared>>

\* The deferred call left out.
removePkgForgotten(c) == pkg

\* The deferred os.RemoveAll(<charm>/pkg) of line 155.
removePkg(c) == [pkg EXCEPT ![c] = FALSE]

\* processGoCharm returns: the deferred call runs.
Return ==
  /\ pc = "return"
  /\ pkg' = removePkg(dirs[idx])
  /\ pc' = "after"
  /\ Stage(dirs[idx], "return")
  /\ UNCHANGED <<handed, metadata, srcRunhook, revision, mainGo, binRunhook, hooksDir,
                 inVars, loopVars, outVars, procVars>>

\* A bump by two.
newRevisionTwo(c) == dirRevision[c] + 2

\* dir.Revision() + 1 of line 123.
newRevision(c) == dirRevision[c] + 1

\* main, lines 116-128: report a failure, or bump the revision and print
\* the success line.  SetDiskRevision sets the in-memory revision, then
\* writes the revision file, which may fail.
AfterProcess ==
  /\ pc = "after"
  /\ LET c == dirs[idx] IN
       IF err # ""
         THEN /\ errorf("failed compile or test charm", c)
              /\ Stage(c, "failed")
              /\ UNCHANGED <<revision, dirRevision, stdout, exitStatus>>
         ELSE IF doneSomething
           THEN \E ok \in BOOLEAN :
                  /\ dirRevision' = [dirRevision EXCEPT ![c] = newRevision(c)]
                  /\ IF ok
                       THEN /\ revision' = [revision EXCEPT ![c] = newRevision(c)]
                            /\ UNCHANGED <<exitCode, stderr>>
                       ELSE /\ errorf("cannot bump revision", c)
                            /\ UNCHANGED revision
                  /\ stdout' = Append(stdout, [charm |-> c, rev |-> dirRevision'[c]])
                  /\ Stage(c, IF ok THEN "bumped" ELSE "bumpfail")
                  /\ UNCHANGED exitStatus
           ELSE /\ Stage(c, "nothing")
                /\ UNCHANGED <<revision, dirRevision, outVars>>
  /\ Continue
  /\ hooks' = {}
  /\ declared' = {}
  /\ doneSomething' = FALSE
  /\ err' = ""
  /\ UNCHANGED <<handed, metadata, srcRunhook, pkg, mainGo, binRunhook, hooksDir,
                 inVars, repo, paths, dirs, cmdEnv>>

\* main, line 130: os.Exit(exitCode).
Exit ==
  /\ pc = "exit"
  /\ pc' = "exited"
  /\ exitStatus' = exitCode
  /\ UNCHANGED <<handed, fsVars, inVars, procVars, loopVars, exitCode, stdout, stderr,
                 trace>>

Next ==
  \/ ResolveRepo
  \/ Glob
  \/ ReadDir
  \/ Classify
  \/ TestCharm
  \/ Compile
  \/ StatBinary
  \/ RegisteredHooks
  \/ WriteHooks
  \/ Return
  \/ AfterProcess
  \/ Exit

Spec == Init /\ [][Next]_vars

\* ------------------------------------------- the build environment alone

\* Entries an inherited environment is made of.
EnvEntries == {"GOPATH=/a", "GOPATH=/b", "GOOS=plan9", "GO=x", "HOME=/h"}

\* Entries given to setenv.
SetEntries == {"GOPATH=/c", "GOOS=linux", "GOARCH=amd64", "GO=y"}

EnvLists == UNION {[1..n -> EnvEntries] : n \in 0..MaxEnvLen}

InitEnv ==
  /\ environ \in EnvLists
  /\ repo = "/r"
  /\ jujuRepository = ""
  /\ test = FALSE
  /\ metadata = [c \in Charms |-> "ok"]
  /\ srcRunhook = [c \in Charms |-> "dir"]
  /\ revision = [c \in Charms |-> 0]
  /\ hooksDir = [c \in Charms |-> DefaultStubs]
  /\ registered = [c \in Charms |-> SUBSET HookNames]
  /\ pc = "env"
  /\ Fresh

envFrame == <<fsVars, jujuRepository, test, environ, rev0, hooks0, repo,
              paths, dirRevision, hooks, doneSomething, err, declared,
              outVars, trace, registered, run, doneBefore, handed>>

\* One call setenv(os.Environ(), entry).
EnvSetenv ==
  /\ pc = "env"
  /\ \E e \in SetEntries :
       /\ envEntry' = e
       /\ cmdEnv' = setenv(environ, e)
  /\ pc' = "envset"
  /\ UNCHANGED <<envFrame, dirs, idx>>

\* The environment part of compile, lines 208-215 and 226.
EnvCompile ==
  /\ pc = "env"
  /\ \E c \in Charms :
       /\ dirs' = <<c>>
       /\ cmdEnv' = compileEnv(environ, c, TRUE)
  /\ pc' = "envcompile"
  /\ UNCHANGED <<envFrame, envEntry, idx>>

NextEnv == EnvSetenv \/ EnvCompile

SpecEnv == InitEnv /\ [][NextEnv]_vars

\* ------------------------------------------------------------- properties

\* Stage s is in the history of charm c.
Has(c, s) == \E k \in DOMAIN trace[c] : trace[c][k] = s

LastStage(c) == IF trace[c] = <<>> THEN "" ELSE trace[c][Len(trace[c])]

\* The success lines written for charm c.
Lines(c) == {k \in DOMAIN stdout : stdout[k].charm = c}

\* The run ended by os.Exit(exitCode) at the end of main.
NormalEnd == pc = "exited" /\ paths # <<>>

\* The run ended in fatalf.
FatalEnd == pc = "exited" /\ paths = <<>>

\* Build, introspection and stub synchronization all completed for c.
PipelineOK(c) ==
  /\ Has(c, "compile")
  /\ Has(c, "binary")
  /\ Has(c, "introspect")
  /\ Has(c, "stubs")

\* C1: a charm whose src/runhook is absent or not a directory is never
\* compiled, gets no stub written, keeps its revision and gets no success
\* line, in every state of every run, whatever the other charms do.
C1_NonGoCharmUntouched ==
  \A c \in Charms :
    srcRunhook[c] # "dir" =>
      /\ ~Has(c, "compile") /\ ~Has(c, "compilefail")
      /\ ~mainGo[c] /\ ~binRunhook[c] /\ ~pkg[c]
      /\ hooksDir[c] = hooks0[c]
      /\ revision[c] = rev0[c]
      /\ Lines(c) = {}

\* C1 witness: a run that ended with a charm whose src/runhook is a file
\* skipped, while another charm was built and bumped.
C1_Witness ==
  /\ NormalEnd
  /\ \E c, d \in Charms :
       /\ srcRunhook[c] = "file" /\ Has(c, "notgo")
       /\ hooks0[c]["stop"] = "custom"
       /\ Has(d, "bumped")

\* C2 as stated: at the end of a run the on-disk revision is the old one
\* plus 1 when build, introspection and stub synchronization all completed,
\* and the old one otherwise.
C2_BumpedIffPipelineOK ==
  NormalEnd =>
    \A c \in Charms :
      revision[c] = IF PipelineOK(c) THEN rev0[c] + 1 ELSE rev0[c]

\* C2 amended: the on-disk revision is never below the old one and never
\* more than 1 above it, and at the end of a run it is the old one plus 1
\* exactly when build, introspection and stub synchronization all completed
\* and the write of the revision file succeeded.
C2_BumpedIffPipelineAndWriteOK ==
  /\ \A c \in Charms : revision[c] \in {rev0[c], rev0[c] + 1}
  /\ NormalEnd =>
       \A c \in Charms :
         revision[c] = IF PipelineOK(c) /\ ~Has(c, "bumpfail")
                         THEN rev0[c] + 1 ELSE rev0[c]

\* C2 witness: a run that ended with one charm bumped and another whose
\* pipeline completed but whose revision file could not be written.
C2_Witness ==
  /\ NormalEnd
  /\ \E c, d \in Charms :
       /\ PipelineOK(c) /\ revision[c] = rev0[c] + 1
       /\ PipelineOK(d) /\ Has(d, "bumpfail") /\ revision[d] = rev0[d]

\* The history of a charm that was taken through everything its own files
\* and its own failures allow.
CompleteTrace(c) ==
  CASE metadata[c] = "absent" -> trace[c] = <<>>
    [] metadata[c] = "bad" -> trace[c] = <<"readfail">>
    [] metadata[c] = "ok" /\ srcRunhook[c] = "error" ->
         trace[c] = <<"read", "classerr">>
    [] metadata[c] = "ok" /\ srcRunhook[c] \in {"absent", "file"} ->
         trace[c] = <<"read", "notgo">>
    [] metadata[c] = "ok" /\ srcRunhook[c] = "dir" ->
         /\ Len(trace[c]) >= 5
         /\ SubSeq(trace[c], 1, 2) = <<"read", "go">>
         /\ trace[c][Len(trace[c]) - 1] = "return"
         /\ LastStage(c) \in {"failed", "nothing", "bumped", "bumpfail"}

\* The stubs charm c ends with, from its own declared hooks and failures.
OwnOutcome(c) ==
  /\ Has(c, "stubs") =>
       /\ hooksDir[c]["stop"] # "absent"
       /\ LastStage(c) \in {"bumped", "bumpfail"}
  /\ ~Has(c, "stubs") /\ ~Has(c, "stubsfail") => hooksDir[c] = hooks0[c]
  /\ LastStage(c) = "bumped" =>
       /\ revision[c] = rev0[c] + 1
       /\ \E k \in DOMAIN stdout : stdout[k] = [charm |-> c, rev |-> rev0[c] + 1]
  /\ LastStage(c) \in {"failed", "nothing"} =>
       /\ revision[c] = rev0[c]
       /\ Lines(c) = {}
  /\ Cardinality(Lines(c)) <= 1

\* C3: at the end of a run every discovered charm has been taken through
\* its whole pipeline, as far as its own files and failures allow, and has
\* the outcome its own history gives, whatever failed for the other charms.
C3_FailuresIsolated ==
  NormalEnd =>
    \A c \in Charms :
      /\ CompleteTrace(c)
      /\ metadata[c] = "ok" /\ srcRunhook[c] = "dir" => OwnOutcome(c)

\* C3 witness: the first charm failed to build and the second one, after
\* it, was stubbed and bumped.
C3_Witness ==
  /\ NormalEnd
  /\ \E c, d \in Charms :
       /\ c < d
       /\ Has(c, "compilefail") /\ LastStage(c) = "failed"
       /\ LastStage(d) = "bumped"
       /\ revision[d] = rev0[d] + 1

\* C4: with no repository root, or no metadata file under it, the run ends
\* at once with status 2, no charm is read, classified, built, stubbed,
\* bumped or reported; a run that gets past discovery ends with 0 or 1.
C4_FatalConfiguration ==
  /\ ( \/ pc # "start" /\ repo = ""
       \/ pc \notin {"start", "glob"} /\ \A c \in Charms : metadata[c] = "absent" )
       => /\ pc = "exited"
          /\ exitStatus = 2
          /\ stdout = <<>>
          /\ \A c \in Charms :
               /\ trace[c] = <<>>
               /\ revision[c] = rev0[c]
               /\ hooksDir[c] = hooks0[c]
               /\ ~mainGo[c] /\ ~binRunhook[c]
  /\ NormalEnd => exitStatus \in {0, 1}

\* C4 witness: the root came from JUJU_REPOSITORY, held no charm, and the
\* run ended with status 2.
C4_Witness ==
  /\ pc = "exited"
  /\ repo = "/r"
  /\ \A c \in Charms : metadata[c] = "absent"
  /\ exitStatus = 2

\* C5 as stated: at the normal end the status is non-zero when some charm
\* hit a classification error, a build failure or an introspection failure.
C5_ExitReflectsPerCharmErrors ==
  NormalEnd =>
    ( (\E c \in Charms :
         \/ Has(c, "classerr")
         \/ Has(c, "compilefail") \/ Has(c, "nobinary")
         \/ Has(c, "introspectfail"))
      => exitStatus # 0 )

\* C5 amended: at the normal end the status is 1 when some charm hit an
\* error reported with errorf (unreadable charm, failed test, build,
\* introspection or stub writing, failed revision write) and 0 otherwise;
\* a classification error is a warning and leaves the status alone.
C5_ExitReflectsReportedErrors ==
  NormalEnd =>
    /\ exitStatus \in {0, 1}
    /\ exitStatus = 1 <=>
         \E c \in Charms :
           \/ Has(c, "readfail")
           \/ Has(c, "testfail")
           \/ Has(c, "compilefail") \/ Has(c, "nobinary")
           \/ Has(c, "introspectfail")
           \/ Has(c, "stubsfail")
           \/ Has(c, "bumpfail")

\* C5 witness: a run ended with status 1 after a build failure of one charm
\* and a classification error of another.
C5_Witness ==
  /\ NormalEnd
  /\ exitStatus = 1
  /\ \E c, d \in Charms : Has(c, "compilefail") /\ Has(d, "classerr")

\* The charm processGoCharm is working on, or has just returned for.
Cur == dirs[idx]

InProcess == pc \in {"process", "stat", "hooks", "write", "return"}

\* writeHooks has been called for the current charm.
StubsDone ==
  /\ pc \in {"return", "after"}
  /\ LastStage(Cur) \in {"stubs", "stubsfail", "return"}
  /\ Has(Cur, "stubs") \/ Has(Cur, "stubsfail")

\* C6: the hook set given to writeHooks holds "stop" and every declared
\* hook name, and nothing else, whatever set the charm declares.
C6_StopAlwaysHanded ==
  StubsDone =>
    /\ "stop" \in hooks
    /\ declared \subseteq hooks
    /\ hooks \subseteq declared \cup {"stop"}
    /\ Has(Cur, "stubs") => \A h \in hooks : hooksDir[Cur][h] # "absent"

\* C6 witness: a charm that declared no hook at all got its stop stub.
C6_Witness ==
  /\ pc = "after"
  /\ Has(Cur, "stubs")
  /\ declared = {}
  /\ hooks0[Cur]["stop"] = "absent"
  /\ hooksDir[Cur]["stop"] = "generated"

\* The conflict warning for hook h of charm c is on stderr.
Warned(c, h) ==
  \E k \in DOMAIN stderr : stderr[k] = Msg("warning", "hook conflict: " \o h, c)

\* The stubs of the current hook set that hold custom content.
ConflictsOfCur == {h \in hooks : hooks0[Cur][h] = "custom"}

C8_LineIffRevisionPersisted ==
  /\ \A k \in DOMAIN stdout :
       /\ stdout[k].rev = rev0[stdout[k].charm] + 1
       /\ revision[stdout[k].charm] = rev0[stdout[k].charm] + 1
  /\ NormalEnd =>
       \A c \in Charms : revision[c] = rev0[c] + 1 <=> Lines(c) # {}

\* processGoCharm was called for c and has returned.
Returned(c) ==
  /\ Has(c, "go")
  /\ ~(InProcess /\ Cur = c)

\* C9: once processGoCharm has returned for a charm, on whatever path, the
\* charm has no pkg directory; what was built for a charm stays in place.
C9_PkgRemovedOnReturn ==
  \A c \in Charms :
    /\ Returned(c) => Has(c, "return") /\ ~pkg[c]
    /\ Has(c, "compile") => mainGo[c]
    /\ Has(c, "binary") => binRunhook[c]
    /\ metadata[c] # "ok" => ~pkg[c]

\* C9 witness: processGoCharm has returned after a failed go build, and
\* the charm has no pkg directory.
C9_Witness ==
  /\ pc = "after"
  /\ Has(Cur, "compilefail")
  /\ mainGo[Cur]
  /\ err = "failed to build"
  /\ ~pkg[Cur]

\* NAME and VALUE of an entry NAME=VALUE.
NameOf(e) == SubSeq(e, 1, IndexEq(e))
ValueOf(e) == SubSeq(e, IndexEq(e) + 2, Len(e))

\* The entries of env for name, and the others, in order.
EntriesFor(env, name) == SelectSeq(env, LAMBDA e : HasPrefix(e, name \o "="))
EntriesNotFor(env, name) == SelectSeq(env, LAMBDA e : ~HasPrefix(e, name \o "="))

\* Last-entry-wins lookup: the value of the last entry for name, "" if none.
LookupLast(env, name) ==
  LET es == EntriesFor(env, name)
  IN IF es = <<>> THEN "" ELSE ValueOf(es[Len(es)])

\* C10 as stated: setenv(env, NAME=VALUE) gives NAME the single value VALUE
\* under last-entry-wins lookup, keeps the entries of other names in value
\* and order, and does not grow the list when NAME was present; the build
\* environment has GOPATH = <charm path>:<inherited GOPATH>, GOOS=linux and
\* GOARCH=amd64.
C10_SetenvOverrides ==
  /\ pc = "envset" =>
       LET name == NameOf(envEntry) IN
         /\ LookupLast(cmdEnv, name) = ValueOf(envEntry)
         /\ Len(EntriesFor(cmdEnv, name)) = 1
         /\ EntriesNotFor(cmdEnv, name) = EntriesNotFor(environ, name)
         /\ EntriesFor(environ, name) # <<>> => Len(cmdEnv) = Len(environ)
  /\ pc = "envcompile" =>
       /\ LookupLast(cmdEnv, "GOPATH")
            = Path(dirs[1]) \o ":" \o LookupLast(environ, "GOPATH")
       /\ LookupLast(cmdEnv, "GOOS") = "linux"
       /\ LookupLast(cmdEnv, "GOARCH") = "amd64"
\* ------------------------------------------------------ gocharm run again

\* Successive runs of gocharm over the same repository.
MaxRuns == 2

\* The -repo flag values that resolve to root r.
FlagsFor(r) == {f \in {"", "/r"} : (IF f = "" THEN jujuRepository ELSE f) = r}

\* A repository with one charm directory, whose sources are fixed: its
\* RegisterHooks declares one hook set, the same at every introspection.
InitTwice ==
  /\ Layout
  /\ \E c \in Charms : \A d \in Charms \ {c} : metadata[d] = "absent"
  /\ registered \in [Charms -> {{hs} : hs \in SUBSET HookNames}]
  /\ \A c \in Charms :
       (metadata[c] # "ok" \/ srcRunhook[c] # "dir") => registered[c] = {{}}

\* gocharm has exited and is started again with the same flags and
\* environment; nothing under the repository is modified in between.
Rerun ==
  /\ pc = "exited"
  /\ run < MaxRuns
  /\ run' = run + 1
  /\ doneBefore' = {c \in Charms : LastStage(c) \in {"bumped", "bumpfail"}}
  /\ repo' \in FlagsFor(repo)
  /\ pc' = "start"
  /\ paths' = <<>>
  /\ dirs' = <<>>
  /\ idx' = 1
  /\ dirRevision' = [c \in Charms |-> 0]
  /\ hooks' = {}
  /\ declared' = {}
  /\ doneSomething' = FALSE
  /\ err' = ""
  /\ cmdEnv' = <<>>
  /\ exitCode' = 0
  /\ exitStatus' = 0
  /\ stdout' = <<>>
  /\ stderr' = <<>>
  /\ rev0' = revision
  /\ hooks0' = hooksDir
  /\ trace' = [c \in Charms |-> <<>>]
  /\ UNCHANGED <<fsVars, jujuRepository, test, environ, envEntry, registered,
                 handed>>

NextTwice == Next \/ Rerun

SpecTwice == InitTwice /\ [][NextTwice]_vars

\* C11: in a run that follows a run which completed the pipeline for a
\* charm, with nothing modified in between, writeHooks is handed the hook
\* set it was handed in the earlier run; no step of the later run creates
\* or changes a stub of the charm, or changes anything else of the charm on
\* disk but the revision file (pkg exists only while the charm is built).
C11_SecondRunIdempotent ==
  [][run > 1 =>
       \A c \in doneBefore :
         /\ hooksDir'[c] = hooksDir[c]
         /\ metadata'[c] = metadata[c]
         /\ srcRunhook'[c] = srcRunhook[c]
         /\ mainGo'[c] = mainGo[c]
         /\ binRunhook'[c] = binRunhook[c]
         /\ pc' \in {"after", "exit", "exited"} => ~pkg'[c]
         /\ revision'[c] \in {revision[c], revision[c] + 1}
         /\ (pc = "write" /\ dirs[idx] = c) => hooks' = handed]_vars

\* C11 witness: the second run has ended after bumping again a charm the
\* first run bumped; the set handed twice holds a declared hook, and the
\* stubs are those the second run started with.
C11_Witness ==
  /\ run = 2
  /\ pc = "exited"
  /\ \E c \in doneBefore :
       /\ LastStage(c) = "bumped"
       /\ registered[c] = {{"config-changed"}}
       /\ handed = {"config-changed", "stop"}
       /\ hooksDir[c] = hooks0[c]
       /\ hooksDir[c] = [h \in HookNames |-> "generated"]
       /\ revision[c] = rev0[c] + 1

\* ------------------------------------------------------- order of stages

\* The stages of one charm in their order, and the failure of each.
StageOrder == <<"compile", "binary", "introspect", "stubs", "bumped">>
StageFails ==
  <<"compilefail", "nobinary", "introspectfail", "stubsfail", "bumpfail">>

PipelineStages ==
  {StageOrder[k] : k \in DOMAIN StageOrder}
    \cup {StageFails[k] : k \in DOMAIN StageFails}

IsPipelineStage(s) == s \in PipelineStages

\* The pipeline stages charm c went through, in the order they ran.
StagesOf(c) == SelectSeq(trace[c], IsPipelineStage)

\* C12: the stages of a charm run in the order compile, binary check,
\* introspection, stub writing, revision bump, each only after every
\* earlier one succeeded; after a failed compile, a binary missing after a
\* successful compile, or a failed introspection the charm's stubs and
\* revision are as at the start and no success line is written.
C12_StagesInOrderStopOnFailure ==
  \A c \in Charms :
    /\ LET ran == StagesOf(c) IN
         /\ Len(ran) <= Len(StageOrder)
         /\ \A k \in DOMAIN ran :
              \/ ran[k] = StageOrder[k]
              \/ k = Len(ran) /\ ran[k] = StageFails[k]
    /\ ( \/ Has(c, "compilefail")
         \/ Has(c, "compile") /\ ~binRunhook[c]
         \/ Has(c, "introspectfail") )
       => /\ ~Has(c, "stubs") /\ ~Has(c, "stubsfail")
          /\ ~Has(c, "bumped") /\ ~Has(c, "bumpfail")
          /\ Has(c, "compile") /\ ~binRunhook[c] => ~Has(c, "introspect")
          /\ hooksDir[c] = hooks0[c]
          /\ revision[c] = rev0[c]
          /\ dirRevision[c] \in {0, rev0[c]}
          /\ Lines(c) = {}

\* C12 witness: a run has ended in which one charm was compiled without a
\* binary coming out and was left as it was, and another went through all
\* five stages.
C12_Witness ==
  /\ NormalEnd
  /\ \E c, d \in Charms :
       /\ StagesOf(c) = <<"compile", "nobinary">>
       /\ LastStage(c) = "failed"
       /\ hooksDir[c] = DefaultStubs
       /\ revision[c] = rev0[c]
       /\ StagesOf(d) = StageOrder

\* ------------------------------------------------------------ the -test flag

\* compile was called for charm c.
BuildTried(c) == Has(c, "compile") \/ Has(c, "compilefail")

\* C13: in a run with -test that has ended, every Go charm had its tests
\* run first; a charm whose tests failed is reported as failed and was not
\* built, and a charm whose tests passed was then built and came out as a
\* run without -test leaves it: bumped with a success line, or failed.
C13_TestsThenBuild ==
  (test /\ NormalEnd) =>
    \A c \in Charms :
      /\ Has(c, "go") => Has(c, "testpass") \/ Has(c, "testfail")
      /\ Has(c, "testfail") =>
           /\ LastStage(c) = "failed"
           /\ ~BuildTried(c)
           /\ revision[c] = rev0[c]
      /\ Has(c, "testpass") =>
           /\ BuildTried(c)
           /\ LastStage(c) \in {"bumped", "bumpfail", "failed"}
           /\ PipelineOK(c) => Lines(c) # {}

====
